---- MODULE Spec2Model ----
(***************************************************************************)
(* Model of src/main.rs: a rotating ASCII torus.                           *)
(*                                                                         *)
(*   - main (lines 75-134): the animation controller.  It enters the       *)
(*     alternate screen and raw mode, then loops: drain the key channel    *)
(*     with try_recv, call render_frame, advance the angles, sleep.        *)
(*   - the input thread (lines 79-88): polls the keyboard and sends every  *)
(*     key event over an mpsc channel.                                     *)
(*   - render_frame (lines 23-73): one rasterization pass with a z-buffer  *)
(*     followed by the print of the grid.                                  *)
(*                                                                         *)
(* f32 values (angles and speeds) are modelled exactly: a value v is the   *)
(* integer v * 2^30, and every addition is rounded to 24 significant bits, *)
(* ties to even, as IEEE-754 binary32 addition does.  All the values the   *)
(* model reaches are below 1.0 in magnitude (below 2^30 units).            *)
(***************************************************************************)
EXTENDS Integers, Sequences, FiniteSets, TLC

VARIABLES
    pc,         \* statement the main thread is at
    exit,       \* "none" while main runs, "err" once main returned Err and
                \* dropped its locals, the receiver rx among them
    poller,     \* the input thread: "polling", "panicked", or "gone" with
                \* the process
    running,    \* main.rs:95
    a, b,       \* main.rs:91-92, f32 in units of 2^-30
    a_speed,    \* main.rs:93
    b_speed,    \* main.rs:94
    channel,    \* the mpsc channel (tx, rx) of main.rs:78: events sent, not yet received
    altScreen,  \* the terminal is in the alternate screen buffer
    rawMode,    \* the terminal is in raw mode
    produced,   \* history: every key event the input thread sent, in order
    consumed,   \* history: every key event try_recv returned, in order
    frames,     \* history: one record per call of render_frame by main
    width,      \* main.rs:77, the terminal's columns
    height,     \* main.rs:77, the terminal's rows
    output,     \* main.rs:25, the character grid of render_frame
    zbuffer,    \* main.rs:26, the depth grid of render_frame
    rpc,        \* where a call of render_frame is: "idle", "sampling", "printed"
    nsamp,      \* samples the running call of render_frame has processed
    hits,       \* history: per cell, the samples of the running call that
                \* projected to it with brightness > 0, in sampling order
    discards,   \* history: samples of the running call that failed the bounds test
    stdout,     \* what the running call of render_frame has printed
    prevDrawn,  \* history: the call before the running one wrote some cell
    elapsed,    \* milliseconds since the Instant::now() of the tick (main.rs:102)
    sleeps      \* history: per tick, the elapsed time and the delay slept

mainVars == <<pc, exit, running, a, b, a_speed, b_speed, channel, altScreen, rawMode,
              produced, consumed, frames, poller>>

rasterVars == <<width, height, output, zbuffer, rpc, nsamp, hits, prevDrawn,
                stdout, discards>>

paceVars == <<elapsed, sleeps>>

vars == <<mainVars, rasterVars, paceVars>>

----------------------------------------------------------------------------
(* Bounds of the model. *)

\* Key events the input thread sends in one run.
MaxEvents == 3

\* Ticks (iterations of the main loop) started in one run.
MaxTicks == 3

----------------------------------------------------------------------------
(* f32 arithmetic, in units of 2^-30. *)

\* Significand precision of f32 (the type of a, b and the speeds, main.rs:91).
F32_MANT_BITS == 24

\* 0.01_f32 (main.rs:106-109).
SPEED_STEP == 10737418

\* 0.04_f32 (main.rs:93, 110, 112).
A_SPEED_DEFAULT == 42949672

\* 0.08_f32 (main.rs:94, 110, 112).
B_SPEED_DEFAULT == 85899344

Pow2(k) == 2^k

Abs(n) == IF n < 0 THEN -n ELSE n

\* The number of low bits a magnitude m < 2^30 loses when it is stored in an
\* f32: 0 when m fits in 24 bits.
F32Shift(m) ==
    CHOOSE k \in 0..(30 - F32_MANT_BITS) :
        /\ m < Pow2(F32_MANT_BITS + k)
        /\ (k = 0 \/ m >= Pow2(F32_MANT_BITS + k - 1))

\* Round a magnitude to the nearest f32, ties to even.
F32RoundMag(m) ==
    LET k    == F32Shift(m)
        unit == Pow2(k)
        q    == m \div unit
        r    == m % unit
    IN  IF k = 0 THEN m
        ELSE IF 2 * r > unit \/ (2 * r = unit /\ q % 2 = 1)
             THEN (q + 1) * unit
             ELSE q * unit

F32Round(n) == IF n < 0 THEN -F32RoundMag(-n) ELSE F32RoundMag(n)

\* x + y and x - y on f32 (the += and -= of main.rs:106-109, 121-122).
F32Add(x, y) == F32Round(x + y)

F32Sub(x, y) == F32Round(x - y)

----------------------------------------------------------------------------
(* Key events. *)

\* The key codes the model sends: the eight codes main matches on and one
\* code ("x") that falls to the `_` arm.
KeyCodes == {"Up", "Down", "Left", "Right", "r", "p", "s", "Esc", "x"}

\* The arms of the match of main.rs:105-115, each as the pair
\* <<a_speed, b_speed>> it leaves.
UpArm(as, bs) == <<F32Add(as, SPEED_STEP), bs>>

DownArmAdds(as, bs) == <<F32Add(as, SPEED_STEP), bs>>

DownArm(as, bs) == <<F32Sub(as, SPEED_STEP), bs>>

RightArm(as, bs) == <<as, F32Add(bs, SPEED_STEP)>>

LeftArm(as, bs) == <<as, F32Sub(bs, SPEED_STEP)>>

ResetArm(as, bs) == <<A_SPEED_DEFAULT, B_SPEED_DEFAULT>>

PauseArmTiltOnly(as, bs) == <<0, bs>>

PauseArm(as, bs) == <<0, 0>>

StartArmTiltOnly(as, bs) == <<A_SPEED_DEFAULT, bs>>

StartArm(as, bs) == <<A_SPEED_DEFAULT, B_SPEED_DEFAULT>>

OtherArmResets(as, bs) == <<A_SPEED_DEFAULT, B_SPEED_DEFAULT>>

\* `_ => {}` (main.rs:114): any other key changes nothing; nor does the
\* Esc arm (main.rs:113) change the speeds.
OtherArm(as, bs) == <<as, bs>>

\* The match of main.rs:105-115 on the speeds: the pair <<a_speed, b_speed>>
\* after the arm for `code` ran.  Esc and every other code leave the speeds.
MatchSpeeds(code, as, bs) ==
    CASE code = "Up"    -> UpArm(as, bs)
      [] code = "Down"  -> DownArm(as, bs)
      [] code = "Right" -> RightArm(as, bs)
      [] code = "Left"  -> LeftArm(as, bs)
      [] code = "r"     -> ResetArm(as, bs)
      [] code = "p"     -> PauseArm(as, bs)
      [] code = "s"     -> StartArm(as, bs)
      [] OTHER          -> OtherArm(as, bs)

\* The match of main.rs:105-115 on `running`: only the Esc arm clears it.
MatchRunning(code, run) == IF code = "Esc" THEN FALSE ELSE run

NeverBreaks(code) == FALSE

\* Whether the arm for `code` breaks out of the drain loop (main.rs:113).
MatchBreaks(code) == code = "Esc"

----------------------------------------------------------------------------
(* The input thread, main.rs:79-88. *)

SendFront(ch, ev) == <<ev>> \o ch

\* tx.send(key_event) (main.rs:84): the event goes to the back of the channel.
Send(ch, ev) == Append(ch, ev)

\* One iteration of the thread's loop: poll times out or fails, or read
\* returns something that is no key event (nothing is sent), or a key event
\* is read and sent.  The send fails once main has returned and dropped the
\* receiver, and the unwrap (main.rs:84) then panics: the thread ends.  The
\* loop itself has no exit.
PollerIteration ==
    /\ poller = "polling"
    /\ \/ UNCHANGED <<channel, produced, poller>>
       \/ /\ exit = "none"
          /\ \E code \in KeyCodes :
                /\ Len(produced) < MaxEvents
                /\ channel' = Send(channel, code)
                /\ produced' = Append(produced, code)
          /\ UNCHANGED poller
       \/ /\ exit = "err"
          /\ poller' = "panicked"
          /\ UNCHANGED <<channel, produced>>
    /\ UNCHANGED <<rasterVars, paceVars>>
    /\ UNCHANGED <<pc, exit, running, a, b, a_speed, b_speed, altScreen, rawMode,
                   consumed, frames>>

----------------------------------------------------------------------------
(* The main thread, main.rs:90-133. *)

\* execute!(stdout(), EnterAlternateScreen)? (main.rs:97).
EnterAlternateScreen ==
    /\ pc = "enter_alt" /\ exit = "none"
    /\ \/ altScreen' = TRUE /\ pc' = "enable_raw" /\ UNCHANGED exit
       \/ exit' = "err" /\ UNCHANGED <<altScreen, pc>>
    /\ UNCHANGED <<rasterVars, paceVars, poller>>
    /\ UNCHANGED <<running, a, b, a_speed, b_speed, channel, rawMode,
                   produced, consumed, frames>>

\* terminal::enable_raw_mode()? (main.rs:98).
EnableRawMode ==
    /\ pc = "enable_raw" /\ exit = "none"
    /\ \/ rawMode' = TRUE /\ pc' = "loop_test" /\ UNCHANGED exit
       \/ exit' = "err" /\ UNCHANGED <<rawMode, pc>>
    /\ UNCHANGED <<rasterVars, paceVars, poller>>
    /\ UNCHANGED <<running, a, b, a_speed, b_speed, channel, altScreen,
                   produced, consumed, frames>>

\* while running (main.rs:101), and the Instant::now() of a tick that starts.
LoopTest ==
    /\ pc = "loop_test" /\ exit = "none"
    /\ \/ running /\ Len(frames) < MaxTicks /\ pc' = "drain"
       \/ ~running /\ pc' = "disable_raw"
    /\ UNCHANGED <<rasterVars, paceVars, poller>>
    /\ UNCHANGED <<exit, running, a, b, a_speed, b_speed, channel, altScreen,
                   rawMode, produced, consumed, frames>>

\* rx.try_recv() (main.rs:104): the event at the front of the channel and
\* the channel without it.
RecvHead(ch) == Head(ch)

RecvRest(ch) == Tail(ch)

\* A receive that waits for an event: nothing happens on an empty channel.
BlockingRecv ==
    /\ pc = "drain" /\ exit = "none"
    /\ channel # <<>>
    /\ LET code == RecvHead(channel)
           sp   == MatchSpeeds(code, a_speed, b_speed)
       IN  /\ channel' = RecvRest(channel)
           /\ consumed' = Append(consumed, code)
           /\ a_speed' = sp[1]
           /\ b_speed' = sp[2]
           /\ running' = MatchRunning(code, running)
           /\ pc' = IF MatchBreaks(code) THEN "render" ELSE "drain"
    /\ UNCHANGED <<rasterVars, paceVars, poller>>
    /\ UNCHANGED <<exit, a, b, altScreen, rawMode, produced, frames>>

\* One evaluation of `while let Ok(..) = rx.try_recv()` (main.rs:104) and,
\* when an event came, of the match on it (main.rs:105-115).  An empty
\* channel ends the drain; the Esc arm breaks out of it.
TryRecv ==
    /\ pc = "drain" /\ exit = "none"
    /\ \/ /\ channel = <<>>
          /\ pc' = "render"
          /\ UNCHANGED <<running, a_speed, b_speed, channel, consumed>>
       \/ /\ channel # <<>>
          /\ LET code == RecvHead(channel)
                 sp   == MatchSpeeds(code, a_speed, b_speed)
             IN  /\ channel' = RecvRest(channel)
                 /\ consumed' = Append(consumed, code)
                 /\ a_speed' = sp[1]
                 /\ b_speed' = sp[2]
                 /\ running' = MatchRunning(code, running)
                 /\ pc' = IF MatchBreaks(code) THEN "render" ELSE "drain"
    /\ UNCHANGED <<rasterVars, paceVars, poller>>
    /\ UNCHANGED <<exit, a, b, altScreen, rawMode, produced, frames>>

\* A loop that adds the speeds before it looks at the result of the call.
RenderFrameAfterAdvance ==
    /\ pc = "render" /\ exit = "none"
    /\ frames' = Append(frames, [a |-> a, b |-> b, a_speed |-> a_speed,
                                 b_speed |-> b_speed, running |-> running])
    /\ \/ pc' = "advance" /\ UNCHANGED <<exit, a, b>>
       \/ /\ exit' = "err" /\ UNCHANGED pc
          /\ a' = F32Add(a, a_speed)
          /\ b' = F32Add(b, b_speed)
    /\ UNCHANGED <<rasterVars, paceVars, poller>>
    /\ UNCHANGED <<running, a_speed, b_speed, channel, altScreen, rawMode,
                   produced, consumed>>

\* render_frame(a, b, width, height)? (main.rs:119): the call follows the
\* drain loop unconditionally, whether or not Esc cleared `running`.  It
\* returns Ok, or Err when the flush of stdout fails (main.rs:71), and then
\* main returns the error at once.
RenderFrame ==
    /\ pc = "render" /\ exit = "none"
    /\ frames' = Append(frames, [a |-> a, b |-> b, a_speed |-> a_speed,
                                 b_speed |-> b_speed, running |-> running])
    /\ \/ pc' = "advance" /\ UNCHANGED exit
       \/ exit' = "err" /\ UNCHANGED pc
    /\ UNCHANGED <<rasterVars, paceVars, poller>>
    /\ UNCHANGED <<running, a, b, a_speed, b_speed, channel, altScreen, rawMode,
                   produced, consumed>>

AdvanceTwice(x, speed) == F32Add(F32Add(x, speed), speed)

\* a += a_speed; b += b_speed (main.rs:121-122).
AdvanceA(x, speed) == F32Add(x, speed)

AdvanceB(x, speed) == F32Add(x, speed)

Advance ==
    /\ pc = "advance" /\ exit = "none"
    /\ a' = AdvanceA(a, a_speed)
    /\ b' = AdvanceB(b, b_speed)
    /\ pc' = "sleep"
    /\ UNCHANGED <<rasterVars, paceVars, poller>>
    /\ UNCHANGED <<exit, running, a_speed, b_speed, channel, altScreen, rawMode,
                   produced, consumed, frames>>

\* elapsed, delay and thread::sleep(delay) (main.rs:123-125).
Sleep ==
    /\ pc = "sleep" /\ exit = "none"
    /\ pc' = "loop_test"
    /\ UNCHANGED <<rasterVars, paceVars, poller>>
    /\ UNCHANGED <<exit, running, a, b, a_speed, b_speed, channel, altScreen,
                   rawMode, produced, consumed, frames>>

DisableRawModeSkipped ==
    /\ pc = "disable_raw" /\ exit = "none"
    /\ pc' = "leave_alt"
    /\ UNCHANGED <<rasterVars, paceVars, poller>>
    /\ UNCHANGED <<exit, running, a, b, a_speed, b_speed, channel, altScreen,
                   rawMode, produced, consumed, frames>>

\* terminal::disable_raw_mode()? (main.rs:129).
DisableRawMode ==
    /\ pc = "disable_raw" /\ exit = "none"
    /\ \/ rawMode' = FALSE /\ pc' = "leave_alt" /\ UNCHANGED exit
       \/ exit' = "err" /\ UNCHANGED <<rawMode, pc>>
    /\ UNCHANGED <<rasterVars, paceVars, poller>>
    /\ UNCHANGED <<running, a, b, a_speed, b_speed, channel, altScreen,
                   produced, consumed, frames>>

\* execute!(stdout(), LeaveAlternateScreen)? (main.rs:130).  On success main
\* goes on to handle.join() (main.rs:131), which returns only when the input
\* thread has ended: that thread is an endless loop, so main stays there.
LeaveAlternateScreen ==
    /\ pc = "leave_alt" /\ exit = "none"
    /\ \/ altScreen' = FALSE /\ pc' = "join" /\ UNCHANGED exit
       \/ exit' = "err" /\ UNCHANGED <<altScreen, pc>>
    /\ UNCHANGED <<rasterVars, paceVars, poller>>
    /\ UNCHANGED <<running, a, b, a_speed, b_speed, channel, rawMode,
                   produced, consumed, frames>>

----------------------------------------------------------------------------
(* render_frame, main.rs:23-73: one rasterization pass.                    *)
(*                                                                         *)
(* The projection of a sample (main.rs:41-50, 53) is trigonometry on the   *)
(* angles; the model takes its results, the screen position (xp, yp), the  *)
(* depth z and the brightness l of each sample, from small sets.           *)

\* Samples one call of render_frame processes (the theta x phi grid of
\* main.rs:40-42 has a fixed number of points).
MaxSamples == 3

\* Terminal sizes (get_terminal_size, main.rs:16-20).
Widths == {1, 2}

Heights == {1, 2}

\* Screen positions (xp, yp) of a sample (main.rs:49-50): every cell of the
\* frame and one position beyond each of its four edges.
SamplePositions(w, h) ==
    ((0..(w - 1)) \X (0..(h - 1))) \cup {<<-1, 0>>, <<w, 0>>, <<0, -1>>, <<0, h>>}

\* Depths z of a sample (main.rs:47).
Depths == {1, 2}

\* f32::INFINITY (main.rs:26): above every depth.
F32_INFINITY == 1000

\* Brightness l (main.rs:53) is counted in units of 1/LumUnit.
LumUnit == 24

\* Brightnesses of a sample: negative, zero, and three positive ones, the
\* last with l * 12 above 13.
Lums == {-1, 0, 1, 13, 27}

\* The factor of l * 12.0 (main.rs:56).
LUM_SCALE == 12

\* The upper limit of clamp(0.0, 11.0) (main.rs:56).
LUM_CLAMP_MAX == 11

\* The character ramp of main.rs:57, ".,-~:;=!*#$@%&".
RAMP == <<".", ",", "-", "~", ":", ";", "=", "!", "*", "#", "$", "@", "%", "&">>

\* The indices of a grid of w x h cells (main.rs:25-26).
Cells(w, h) == 0..(w * h - 1)

ReusedOutput(w, h) == output

\* vec![' '; width * height] (main.rs:25).
NewOutput(w, h) == [k \in Cells(w, h) |-> " "]

\* vec![f32::INFINITY; width * height] (main.rs:26).
NewZbuffer(w, h) == [k \in Cells(w, h) |-> F32_INFINITY]

InBoundsNoRightEdge(xp, yp, w, h) ==
    /\ xp >= 0
    /\ yp >= 0 /\ yp < h

\* The bounds test of main.rs:51.
InBounds(xp, yp, w, h) == xp >= 0 /\ xp < w /\ yp >= 0 /\ yp < h

\* index = xp + width * yp (main.rs:52).
CellIndex(xp, yp, w) == xp + w * yp

DepthTestNonStrict(l, z, stored) == l > 0 /\ z <= stored

\* l > 0.0 && z < zbuffer[index] (main.rs:54).
DepthTest(l, z, stored) == l > 0 /\ z < stored

\* (l * 12.0).clamp(0.0, 11.0).floor() as usize (main.rs:56), l in units of
\* 1/LumUnit.
LuminanceIndex(l) ==
    LET scaled == l * LUM_SCALE
    IN  IF scaled <= 0 THEN 0
        ELSE IF scaled >= LUM_CLAMP_MAX * LumUnit THEN LUM_CLAMP_MAX
        ELSE scaled \div LumUnit

\* The character of the ramp at a 0-based index (main.rs:57).
RampChar(i) == RAMP[i + 1]

\* The start of a call (main.rs:25-26): both grids are built anew.
RenderStart ==
    /\ rpc \in {"idle", "printed"}
    /\ output' = NewOutput(width, height)
    /\ zbuffer' = NewZbuffer(width, height)
    /\ rpc' = "sampling"
    /\ nsamp' = 0
    /\ hits' = [k \in Cells(width, height) |-> <<>>]
    /\ prevDrawn' = (\E k \in Cells(width, height) : output[k] # " ")
    /\ stdout' = <<>>
    /\ discards' = 0
    /\ UNCHANGED <<width, height>>
    /\ UNCHANGED <<mainVars, paceVars>>

\* One iteration of the inner loop (main.rs:42-60) for a sample projected
\* to (xp, yp) with depth z and brightness l.  Indexing a Vec outside its
\* length panics (main.rs:54-57).
PlotSample(xp, yp, z, l) ==
    /\ rpc = "sampling"
    /\ nsamp < MaxSamples
    /\ nsamp' = nsamp + 1
    /\ IF InBounds(xp, yp, width, height)
       THEN LET index == CellIndex(xp, yp, width)
            IN  IF index \in Cells(width, height)
                THEN /\ IF DepthTest(l, z, zbuffer[index])
                        THEN /\ zbuffer' = [zbuffer EXCEPT ![index] = z]
                             /\ output' = [output EXCEPT ![index] = RampChar(LuminanceIndex(l))]
                        ELSE UNCHANGED <<zbuffer, output>>
                     /\ hits' = IF l > 0
                                THEN [hits EXCEPT ![index] = Append(@, [z |-> z, l |-> l])]
                                ELSE hits
                     /\ UNCHANGED <<rpc, discards>>
                ELSE /\ rpc' = "panicked"
                     /\ UNCHANGED <<zbuffer, output, hits, discards>>
       ELSE /\ discards' = discards + 1
            /\ UNCHANGED <<zbuffer, output, hits, rpc>>
    /\ UNCHANGED <<width, height, prevDrawn, stdout>>
    /\ UNCHANGED <<mainVars, paceVars>>

\* print!("\x1B[H") (main.rs:64): the cursor goes to the top left.
CURSOR_HOME == "ESC[H"

\* print!("\n") (main.rs:67).
LINE_BREAK == "LF"

\* The loop of main.rs:65-70 from cell k on, over n cells of rows of w: a
\* line break when k is the first cell of a row, then the cell's character.
RECURSIVE PrintCells(_, _, _, _)
PrintCells(out, w, k, n) ==
    IF k >= n THEN <<>>
    ELSE (IF k % w = 0 THEN <<LINE_BREAK>> ELSE <<>>)
         \o <<out[k]>> \o PrintCells(out, w, k + 1, n)

\* Everything one call prints (main.rs:64-70).
PrintedText(out, w, h) == <<CURSOR_HOME>> \o PrintCells(out, w, 0, w * h)

\* The print of the grid and the flush (main.rs:64-72), after the last
\* sample; the flush succeeds, or fails and the call returns the error
\* (main.rs:71).
PrintFrame ==
    /\ rpc = "sampling"
    /\ nsamp = MaxSamples
    /\ stdout' = PrintedText(output, width, height)
    /\ \/ rpc' = "printed"
       \/ rpc' = "failed"
    /\ UNCHANGED <<width, height, output, zbuffer, nsamp, hits, prevDrawn,
                   discards>>
    /\ UNCHANGED <<mainVars, paceVars>>

----------------------------------------------------------------------------
(* Frame pacing, main.rs:102 and 123-125, in milliseconds. *)

\* The longest a tick's work takes.
MaxElapsed == 80

\* Duration::from_millis(50) (main.rs:124).
FRAME_MILLIS == 50

\* How long one piece of a tick's work (drain, render, advance) may take.
WorkMillis == {10, 25, 40}

PlainSub(x, y) == x - y

\* Duration::saturating_sub (main.rs:124): x - y, and zero when y > x.
SaturatingSub(x, y) == IF y > x THEN 0 ELSE x - y

\* Time passes while the tick drains and renders (main.rs:104-122).
PaceWork ==
    /\ Len(sleeps) < MaxTicks
    /\ \E d \in WorkMillis :
          /\ elapsed + d <= MaxElapsed
          /\ elapsed' = elapsed + d
    /\ UNCHANGED sleeps
    /\ UNCHANGED <<mainVars, rasterVars>>

\* elapsed = now.elapsed(); delay = 50 ms saturating_sub elapsed;
\* thread::sleep(delay) (main.rs:123-125); then the next tick takes its own
\* Instant::now() (main.rs:102).
PaceSleep ==
    /\ Len(sleeps) < MaxTicks
    /\ sleeps' = Append(sleeps, [elapsed |-> elapsed,
                                 delay |-> SaturatingSub(FRAME_MILLIS, elapsed)])
    /\ elapsed' = 0
    /\ UNCHANGED <<mainVars, rasterVars>>

\* main has returned Err (main.rs:75, through a `?`): the runtime ends the
\* process, and the input thread with it.
ProcessExit ==
    /\ exit = "err"
    /\ poller # "gone"
    /\ poller' = "gone"
    /\ UNCHANGED <<rasterVars, paceVars>>
    /\ UNCHANGED <<pc, exit, running, a, b, a_speed, b_speed, channel, altScreen,
                   rawMode, produced, consumed, frames>>

MainStep ==
    \/ EnterAlternateScreen
    \/ EnableRawMode
    \/ LoopTest
    \/ TryRecv
    \/ RenderFrame
    \/ Advance
    \/ Sleep
    \/ DisableRawMode
    \/ LeaveAlternateScreen
    \/ ProcessExit

\* The state after main.rs:75-95: the thread is spawned, nothing is sent yet.
MainInit ==
    /\ pc = "enter_alt"
    /\ exit = "none"
    /\ running = TRUE
    /\ a = 0
    /\ b = 0
    /\ a_speed = A_SPEED_DEFAULT
    /\ b_speed = B_SPEED_DEFAULT
    /\ channel = <<>>
    /\ altScreen = FALSE
    /\ rawMode = FALSE
    /\ produced = <<>>
    /\ consumed = <<>>
    /\ frames = <<>>
    /\ poller = "polling"

\* The first tick has just taken its Instant::now().
NoPace ==
    /\ elapsed = 0
    /\ sleeps = <<>>

\* No call of render_frame has begun: there are no grids yet.
NoRender ==
    /\ rpc = "idle"
    /\ nsamp = 0
    /\ output = [k \in Cells(width, height) |-> " "]
    /\ zbuffer = [k \in Cells(width, height) |-> F32_INFINITY]
    /\ hits = [k \in Cells(width, height) |-> <<>>]
    /\ prevDrawn = FALSE
    /\ stdout = <<>>
    /\ discards = 0

\* The program as main runs it, render_frame taken as one step.
Init ==
    /\ MainInit
    /\ width = 1 /\ height = 1
    /\ NoRender
    /\ NoPace

Next == MainStep \/ PollerIteration

Spec == Init /\ [][Next]_vars

\* Both threads are scheduled: a thread that can take a step takes one.
FairSpec == Spec /\ WF_vars(MainStep) /\ WF_vars(PollerIteration)

\* Only the main thread is sure to run: event::poll may time out for ever
\* (main.rs:82), so the input thread may never send again.
MainFairSpec == Spec /\ WF_vars(MainStep)

\* Calls of render_frame, one after another, on a terminal of any size of
\* the model, each sample's projection drawn from the model's sets.
RasterInit ==
    /\ MainInit
    /\ width \in Widths /\ height \in Heights
    /\ NoRender
    /\ NoPace

RasterNext ==
    \/ RenderStart
    \/ \E p \in SamplePositions(width, height), z \in Depths, l \in Lums :
          PlotSample(p[1], p[2], z, l)
    \/ PrintFrame

RasterSpec == RasterInit /\ [][RasterNext]_vars

\* The timing of the ticks of the main loop: work of any length of the
\* model, then the sleep.
PaceNext == PaceWork \/ PaceSleep

PaceSpec == Init /\ [][PaceNext]_vars

----------------------------------------------------------------------------
(* Properties of the controller and the input thread. *)

Last(s) == s[Len(s)]

\* The main loop is executing: main is at one of main.rs:101-125.
InMainLoop == pc \in {"loop_test", "drain", "render", "advance", "sleep"} /\ exit = "none"

\* Main has left the loop for good: past it, or returned from inside it.
LoopLeft == pc \in {"disable_raw", "leave_alt", "join"} \/ (exit # "none" /\ pc = "render")

\* C1: once an Escape event has been consumed (running is false), no frame
\* is rendered: render_frame is never invoked with running false, neither in
\* the tick that drained the Escape nor later.
C1_NoFrameAfterEscape ==
    \A i \in 1..Len(frames) : frames[i].running

\* C2: after the controller reached Stopped, the process eventually exits:
\* the shutdown sequence, with its wait for the input thread, completes.
C2_StoppedEventuallyExits == (~running) ~> (exit # "none")

\* C3: the alternate screen and raw mode are active whenever the main loop
\* is executing, and once the loop has been left (by Escape or by a failed
\* render) and the process has exited, raw mode is disabled and the
\* alternate screen has been left.
C3_TerminalActiveThenRestored ==
    /\ InMainLoop => (rawMode /\ altScreen)
    /\ (LoopLeft /\ exit # "none") => (~rawMode /\ ~altScreen)

\* C4 as stated: every event sent is consumed exactly once and in FIFO
\* order, and none is left unconsumed: once the controller has left its
\* loop, everything sent has been consumed.
C4_ConsumedExactlyOnce ==
    /\ produced = consumed \o channel
    /\ pc \in {"disable_raw", "leave_alt", "join"} => consumed = produced

\* C4 as amended: every event sent is consumed at most once and in FIFO
\* order: at every moment the events consumed so far, followed by the events
\* still in the channel, are exactly the events sent, in the order sent.
C4_ConsumedAtMostOnceFifo == produced = consumed \o channel

\* Two events consumed in order while a third is still queued.
C4_Witness ==
    /\ Len(consumed) = 2 /\ consumed[1] # consumed[2]
    /\ Len(channel) = 1 /\ channel[1] # consumed[2]

\* The speeds after the events of s were applied in order from <<as, bs>>.
RECURSIVE SpeedsAfter(_, _, _)
SpeedsAfter(s, as, bs) ==
    IF s = <<>> THEN <<as, bs>>
    ELSE LET sp == MatchSpeeds(Head(s), as, bs)
         IN  SpeedsAfter(Tail(s), sp[1], sp[2])

\* C5: whenever the last event processed is 'r' or 's' the speeds are
\* exactly the defaults (0.04, 0.08), whatever they were before, and so are
\* they after the events Up, Up, Right, r.
C5_ResetIsExact ==
    /\ (consumed # <<>> /\ Last(consumed) \in {"r", "s"}) =>
           (a_speed = A_SPEED_DEFAULT /\ b_speed = B_SPEED_DEFAULT)
    /\ SpeedsAfter(<<"Up", "Up", "Right", "r">>, A_SPEED_DEFAULT, B_SPEED_DEFAULT)
           = <<A_SPEED_DEFAULT, B_SPEED_DEFAULT>>
    /\ SpeedsAfter(<<"Up", "Up", "Right", "s">>, A_SPEED_DEFAULT, B_SPEED_DEFAULT)
           = <<A_SPEED_DEFAULT, B_SPEED_DEFAULT>>

\* Both speeds were changed, then 's' was processed.
C5_Witness ==
    /\ Len(consumed) = 3
    /\ consumed[1] = "Down" /\ consumed[2] = "Right" /\ consumed[3] = "s"
    /\ a_speed = A_SPEED_DEFAULT /\ b_speed = B_SPEED_DEFAULT

\* A frame rendered while both speeds are zero.
Paused(f) == f.a_speed = 0 /\ f.b_speed = 0

\* C6: whenever the last event processed is 'p' both speeds are zero, and a
\* frame rendered while both speeds are zero is followed by a frame rendered
\* from the same angles: the angles do not move while paused.
C6_PauseFreezesAngles ==
    /\ (consumed # <<>> /\ Last(consumed) = "p") => (a_speed = 0 /\ b_speed = 0)
    /\ \A i \in 1..Len(frames) :
          Paused(frames[i]) =>
             IF i < Len(frames)
             THEN frames[i + 1].a = frames[i].a /\ frames[i + 1].b = frames[i].b
             ELSE a = frames[i].a /\ b = frames[i].b

\* The angles had moved, 'p' was processed, and two more frames were
\* rendered, both from the same angles.
C6_Witness ==
    /\ Len(frames) = 3
    /\ consumed # <<>> /\ Last(consumed) = "p"
    /\ ~Paused(frames[1]) /\ Paused(frames[2]) /\ Paused(frames[3])
    /\ frames[2].a # 0 /\ frames[2].b # 0
    /\ frames[3].a = frames[2].a /\ frames[3].b = frames[2].b

\* The index of the last 'r', 's' or 'p' of s, 0 when there is none.
LastSetIndex(s) ==
    LET I == {i \in 1..Len(s) : s[i] \in {"r", "s", "p"}}
    IN  IF I = {} THEN 0 ELSE CHOOSE i \in I : \A j \in I : j <= i

\* How often `code` occurs in s after the last 'r', 's' or 'p'.
CountSince(s, code) ==
    Cardinality({i \in (LastSetIndex(s) + 1)..Len(s) : s[i] = code})

\* The speeds the last 'r', 's' or 'p' of s set: the defaults when there is
\* none or it is 'r' or 's', zero when it is 'p'.
BaseA(s) ==
    IF LastSetIndex(s) # 0 /\ s[LastSetIndex(s)] = "p" THEN 0 ELSE A_SPEED_DEFAULT

BaseB(s) ==
    IF LastSetIndex(s) # 0 /\ s[LastSetIndex(s)] = "p" THEN 0 ELSE B_SPEED_DEFAULT

\* The speeds by the closed form, in exact arithmetic.
ClosedA(s) == BaseA(s) + SPEED_STEP * (CountSince(s, "Up") - CountSince(s, "Down"))

ClosedB(s) == BaseB(s) + SPEED_STEP * (CountSince(s, "Right") - CountSince(s, "Left"))

\* The closed form evaluated in f32: the product 0.01 x n rounded, then the
\* sum rounded.
ClosedF32A(s) ==
    F32Add(BaseA(s), F32Round(SPEED_STEP * (CountSince(s, "Up") - CountSince(s, "Down"))))

ClosedF32B(s) ==
    F32Add(BaseB(s), F32Round(SPEED_STEP * (CountSince(s, "Right") - CountSince(s, "Left"))))

\* C7 as stated: after any sequence of arrow keys the tilt speed is exactly
\* base + 0.01 x (#Up - #Down) and the spin speed exactly
\* base + 0.01 x (#Right - #Left), counted since the last reset or pause
\* (the base being what that reset or pause set), as an f32.
C7_ExactClosedForm ==
    /\ a_speed = ClosedF32A(consumed)
    /\ b_speed = ClosedF32B(consumed)

\* The spacing of the f32 values around a magnitude m (one unit in the last
\* place), in units of 2^-30.
Ulp(m) == Pow2(F32Shift(m))

\* The step that consumes an event with this code.
Consumes(code) ==
    /\ Len(consumed') = Len(consumed) + 1
    /\ Last(consumed') = code

\* y is x + d rounded to a nearest f32.
NearestSum(y, x, d) == 2 * Abs(y - (x + d)) <= Ulp(Abs(y))

\* The speeds as, bs are within the rounding of the closed form in exact
\* arithmetic after the events s: half a unit in the last place for each
\* arrow key since the last reset or pause.
WithinRounding(as, bs, s) ==
    LET n == CountSince(s, "Up") + CountSince(s, "Down")
        m == CountSince(s, "Right") + CountSince(s, "Left")
    IN  /\ 2 * Abs(as - ClosedA(s)) <= n * Ulp(2 * (BaseA(s) + n * SPEED_STEP))
        /\ 2 * Abs(bs - ClosedB(s)) <= m * Ulp(2 * (BaseB(s) + m * SPEED_STEP))

\* C7 as amended: each Up (Down) replaces the tilt speed by the f32 nearest
\* to tilt + 0.01 (tilt - 0.01) and leaves the spin speed; each Right (Left)
\* does the same to the spin speed and leaves the tilt speed; no key event
\* changes the angles.  The speeds equal the closed form up to the rounding
\* of each addition: by at most half a unit in the last place per arrow key.
C7_AdditivePerAxisRounded ==
    [][/\ Consumes("Up") =>
              NearestSum(a_speed', a_speed, SPEED_STEP) /\ b_speed' = b_speed
       /\ Consumes("Down") =>
              NearestSum(a_speed', a_speed, -SPEED_STEP) /\ b_speed' = b_speed
       /\ Consumes("Right") =>
              NearestSum(b_speed', b_speed, SPEED_STEP) /\ a_speed' = a_speed
       /\ Consumes("Left") =>
              NearestSum(b_speed', b_speed, -SPEED_STEP) /\ a_speed' = a_speed
       /\ consumed' # consumed =>
              /\ a' = a /\ b' = b
              /\ WithinRounding(a_speed', b_speed', consumed')]_vars

\* Up, Up and Left were processed: the tilt speed is 0.059999995, one unit
\* in the last place under 0.04 + 2 x 0.01, and the spin speed moved once.
C7_Witness ==
    /\ consumed = <<"Up", "Up", "Left">>
    /\ a_speed = ClosedF32A(consumed) - Ulp(a_speed)
    /\ b_speed = ClosedF32B(consumed)

----------------------------------------------------------------------------
(* Properties of render_frame. *)

\* The least depth among the samples hs of a cell.
MinDepth(hs) ==
    CHOOSE z \in {hs[i].z : i \in 1..Len(hs)} : \A j \in 1..Len(hs) : z <= hs[j].z

\* The position in hs of the first sample that has the least depth.
FirstMin(hs) ==
    CHOOSE i \in 1..Len(hs) :
        /\ hs[i].z = MinDepth(hs)
        /\ \A j \in 1..(i - 1) : hs[j].z # MinDepth(hs)

\* C8: during and after a rasterization pass, the depth stored for a cell
\* is the least depth among the samples of the pass that projected to the
\* cell with brightness > 0, and +infinity (with a blank character) when
\* there is none: samples with brightness <= 0 change nothing.  The
\* character of the cell is that of the first such sample, in sampling
\* order, that has the least depth: only a strictly smaller depth
\* overwrites a cell.
C8_DepthIsMinFirstWins ==
    rpc \in {"sampling", "printed"} =>
        \A c \in Cells(width, height) :
            IF hits[c] = <<>>
            THEN zbuffer[c] = F32_INFINITY /\ output[c] = " "
            ELSE /\ zbuffer[c] = MinDepth(hits[c])
                 /\ output[c] = RampChar(LuminanceIndex(hits[c][FirstMin(hits[c])].l))

\* A cell took a far sample, then a nearer one, then one as near as that
\* with another brightness: it shows the second.
C8_Witness ==
    /\ rpc = "printed"
    /\ \E c \in Cells(width, height) :
          /\ Len(hits[c]) = 3
          /\ hits[c][1].z > hits[c][2].z
          /\ hits[c][3].z = hits[c][2].z
          /\ LuminanceIndex(hits[c][3].l) # LuminanceIndex(hits[c][2].l)
          /\ LuminanceIndex(hits[c][1].l) # LuminanceIndex(hits[c][2].l)
          /\ output[c] = RampChar(LuminanceIndex(hits[c][2].l))
          /\ zbuffer[c] = hits[c][2].z

\* floor(l x 12) clamped to [0, 13], l in units of 1/LumUnit.
IndexClampedTo13(l) ==
    IF l * LUM_SCALE <= 0 THEN 0
    ELSE IF l * LUM_SCALE >= 13 * LumUnit THEN 13
    ELSE (l * LUM_SCALE) \div LumUnit

\* C9: for a sample that writes a cell, the ramp index is floor(l x 12)
\* clamped to [0, 13], so a brightness with l x 12 >= 13 selects index 13,
\* the last character of the ramp: a cell one sample projected to with
\* brightness > 0 shows the ramp character at that index.
C9_IndexIsFloorClampedTo13 ==
    \A c \in Cells(width, height) :
        (rpc \in {"sampling", "printed"} /\ Len(hits[c]) = 1) =>
            output[c] = RampChar(IndexClampedTo13(hits[c][1].l))

\* The depth and the character the samples hs leave in a cell that starts
\* with the depth and character of zc.
RECURSIVE Replay(_, _)
Replay(hs, zc) ==
    IF hs = <<>> THEN zc
    ELSE Replay(Tail(hs),
                IF Head(hs).l > 0 /\ Head(hs).z < zc[1]
                THEN <<Head(hs).z, RampChar(LuminanceIndex(Head(hs).l))>>
                ELSE zc)

\* C10: a call of render_frame starts from grids that are blank and
\* +infinity in every cell, whatever the call before it drew, and the grids
\* it ends with are those its own samples produce from such grids: two calls
\* with the same samples end with the same grids.
C10_NoCrossFrameLeak ==
    /\ (rpc = "sampling" /\ nsamp = 0) =>
          \A c \in Cells(width, height) :
              output[c] = " " /\ zbuffer[c] = F32_INFINITY
    /\ rpc = "printed" =>
          \A c \in Cells(width, height) :
              <<zbuffer[c], output[c]>> = Replay(hits[c], <<F32_INFINITY, " ">>)

\* The call before drew something, this call has ended, and a cell none of
\* its samples reached is blank.
C10_Witness ==
    /\ rpc = "printed"
    /\ prevDrawn
    /\ \E c \in Cells(width, height) :
          hits[c] = <<>> /\ output[c] = " " /\ zbuffer[c] = F32_INFINITY
    /\ \E c \in Cells(width, height) : hits[c] # <<>>

----------------------------------------------------------------------------
(* Properties of the frame pacing. *)

\* C11: in every tick the sleep duration is max(0, 50 ms - elapsed) for
\* that tick's own elapsed time: it is never negative, it is zero whenever
\* elapsed >= 50 ms, and nothing is carried over from the ticks before.
C11_SleepIsRemainderOfOwnTick ==
    \A i \in 1..Len(sleeps) :
        /\ sleeps[i].delay >= 0
        /\ sleeps[i].elapsed >= FRAME_MILLIS => sleeps[i].delay = 0
        /\ sleeps[i].elapsed < FRAME_MILLIS =>
               sleeps[i].delay = FRAME_MILLIS - sleeps[i].elapsed

\* A tick overran the 50 ms and slept zero; the next took less and slept
\* the whole of its own remainder.
C11_Witness ==
    /\ Len(sleeps) >= 2
    /\ sleeps[1].elapsed > FRAME_MILLIS /\ sleeps[1].delay = 0
    /\ sleeps[2].elapsed > 0 /\ sleeps[2].elapsed < FRAME_MILLIS
    /\ sleeps[2].delay = FRAME_MILLIS - sleeps[2].elapsed

----------------------------------------------------------------------------
(* Properties of the drain loop. *)

\* C12: the render loop never waits for the input thread: whenever the
\* controller is draining, it reaches the render step, also with an empty
\* queue and also when the input thread never sends another event.
C12_DrainReachesRender == (pc = "drain") ~> (pc = "render")

\* The second tick reached its render step although the input thread never
\* sent anything.
C12_Witness ==
    /\ pc = "render" /\ exit = "none"
    /\ produced = <<>> /\ channel = <<>>
    /\ Len(frames) >= 1

----------------------------------------------------------------------------
(* Properties of the printed frame. *)

\* The text with a line break after each complete row of w characters.
RECURSIVE BreakAfterRows(_, _, _, _)
BreakAfterRows(out, w, k, n) ==
    IF k >= n THEN <<>>
    ELSE <<out[k]>>
         \o (IF (k + 1) % w = 0 THEN <<LINE_BREAK>> ELSE <<>>)
         \o BreakAfterRows(out, w, k + 1, n)

\* C13: each frame written is the cursor-reset escape, then the
\* width x height characters of the grid in row-major order with one line
\* break after every complete row and none before the first character, and
\* the output is flushed at the end.
C13_BreakAfterEachRow ==
    rpc = "printed" =>
        stdout = <<CURSOR_HOME>>
                     \o BreakAfterRows(output, width, 0, width * height)

----------------------------------------------------------------------------
(* Properties of a failed frame. *)

\* C14: a failure of the flush in render_frame is fatal: the call returns
\* the error, main leaves the loop with it at once (nothing runs after
\* it, the frame is not tried again), and the angles are not advanced for
\* the failed frame.
C14_RenderFailureIsFatal ==
    [][ /\ exit = "err" =>
              UNCHANGED <<pc, exit, running, a, b, a_speed, b_speed, channel,
                          consumed, frames>>
        /\ (exit = "none" /\ exit' = "err" /\ pc' = "render") =>
              /\ Len(frames') = Len(frames) + 1
              /\ a' = Last(frames').a /\ a' = a
              /\ b' = Last(frames').b /\ b' = b ]_vars

\* The second frame failed: the angles are those it was drawn with, after
\* the one advance that followed the first frame.
C14_Witness ==
    /\ exit = "err" /\ pc = "render"
    /\ Len(frames) = 2
    /\ a = Last(frames).a /\ b = Last(frames).b
    /\ a = frames[1].a_speed /\ a # 0

----------------------------------------------------------------------------
(* Properties of the advance of the angles. *)

\* The step of main.rs:121-122 of a tick whose frame was rendered.
Advances == pc = "advance" /\ pc' = "sleep"

\* The frame of the tick was drawn with the angles the tick still has, and
\* the speeds are those the drain of the tick left.
FrameOfTick ==
    /\ Last(frames).a = a /\ Last(frames).b = b
    /\ Last(frames).a_speed = a_speed /\ Last(frames).b_speed = b_speed

\* Angles change in the advance only, speeds in the drain only, when an
\* event is consumed: never in a step of the input thread or of the call
\* of render_frame.
OnlyDrainAndAdvance ==
    /\ (a' # a \/ b' # b) => Advances
    /\ (a_speed' # a_speed \/ b_speed' # b_speed) =>
           pc = "drain" /\ consumed' # consumed
    /\ Advances => a_speed' = a_speed /\ b_speed' = b_speed

\* C15: in every tick that renders its frame, the frame is drawn with the
\* angles of the start of the tick, then a is increased by exactly the tilt
\* speed and b by exactly the spin speed, once, with the speeds left by the
\* events drained in the same tick; no other step changes angles or speeds.
C15_AdvancedByExactlySpeed ==
    [][ /\ OnlyDrainAndAdvance
        /\ Advances =>
              /\ FrameOfTick
              /\ a' = a + a_speed
              /\ b' = b + b_speed ]_vars

\* C15 as amended: the same, with a and b replaced by the f32 nearest to
\* a + tilt speed and to b + spin speed.
C15_AdvancedBySpeedRounded ==
    [][ /\ OnlyDrainAndAdvance
        /\ Advances =>
              /\ FrameOfTick
              /\ NearestSum(a', a, a_speed)
              /\ NearestSum(b', b, b_speed) ]_vars

\* After an advance whose sum had to be rounded: an angle differs from the
\* angle of the frame plus the speed, by less than the spacing of the f32.
C15_Witness ==
    /\ pc = "sleep" /\ exit = "none"
    /\ \/ a # Last(frames).a + a_speed
       \/ b # Last(frames).b + b_speed
    /\ NearestSum(a, Last(frames).a, a_speed)
    /\ NearestSum(b, Last(frames).b, b_speed)

----------------------------------------------------------------------------
(* Properties of the Esc key and of unbound keys. *)

\* The events of s before its last.
Front(s) == SubSeq(s, 1, Len(s) - 1)

\* C16: Escape ends the event processing of its tick: the events queued
\* behind it are not applied, so the speeds after the drain are those
\* produced by the events before the Escape, all of which were applied in
\* order.
C16_EscapeEndsDrain ==
    /\ running =>
          /\ \A i \in 1..Len(consumed) : consumed[i] # "Esc"
          /\ <<a_speed, b_speed>> =
                 SpeedsAfter(consumed, A_SPEED_DEFAULT, B_SPEED_DEFAULT)
    /\ ~running =>
          /\ consumed # <<>> /\ Last(consumed) = "Esc"
          /\ \A i \in 1..(Len(consumed) - 1) : consumed[i] # "Esc"
          /\ <<a_speed, b_speed>> =
                 SpeedsAfter(Front(consumed), A_SPEED_DEFAULT, B_SPEED_DEFAULT)
          /\ pc # "drain"
    /\ produced = consumed \o channel

\* Up was applied, then Escape was drained with a Right queued behind it;
\* the loop has been left and the Right is still in the queue.
C16_Witness ==
    /\ ~running /\ pc = "join"
    /\ consumed = <<"Up", "Esc">>
    /\ channel = <<"Right">>
    /\ a_speed # A_SPEED_DEFAULT /\ b_speed = B_SPEED_DEFAULT

\* C17: a key event whose code is none of Up, Down, Left, Right, 'r', 's',
\* 'p', Escape is ignored: processing it leaves both speeds, both angles
\* and `running` as they were, and the drain goes on with the next queued
\* event.
C17_UnboundKeyIgnored ==
    [][ Consumes("x") =>
           /\ a_speed' = a_speed /\ b_speed' = b_speed
           /\ a' = a /\ b' = b
           /\ running' = running
           /\ pc = "drain" /\ pc' = "drain"
           /\ channel' = Tail(channel) ]_vars

\* In one drain, after an Up, an unbound key was processed and then the
\* Down queued behind it: the speed is that of Up and Down alone.
C17_Witness ==
    /\ consumed = <<"Up", "x", "Down">>
    /\ frames = <<>> /\ running
    /\ a_speed = F32Sub(F32Add(A_SPEED_DEFAULT, SPEED_STEP), SPEED_STEP)
    /\ b_speed = B_SPEED_DEFAULT

----------------------------------------------------------------------------
(* Properties of the bounds of the grids. *)

\* The sample positions of the model outside a frame of w x h.
OutOfFrame(w, h) ==
    {p \in SamplePositions(w, h) :
        p[1] < 0 \/ p[1] >= w \/ p[2] < 0 \/ p[2] >= h}

\* C18: a sample projected outside the frame is discarded and changes no
\* cell of either grid (a step that changes a cell is the plot of no
\* sample outside the frame); so every index used on the two grids is in
\* [0, width x height): no access is out of range and the grids keep their
\* width x height cells.
C18_OutOfFrameDiscarded ==
    [][ /\ rpc' # "panicked"
        /\ DOMAIN output' = Cells(width, height)
        /\ DOMAIN zbuffer' = Cells(width, height)
        /\ (output' # output \/ zbuffer' # zbuffer) =>
              \A p \in OutOfFrame(width, height), z \in Depths, l \in Lums :
                  ~PlotSample(p[1], p[2], z, l) ]_vars

\* On a 2 x 2 frame, the samples of a call were plotted: two fell outside
\* the frame and were discarded, one wrote its cell.
C18_Witness ==
    /\ width = 2 /\ height = 2
    /\ rpc = "sampling" /\ nsamp = MaxSamples
    /\ discards = 2
    /\ Cardinality({k \in Cells(width, height) : output[k] # " "}) = 1

----------------------------------------------------------------------------
(* Properties of the shutdown. *)

\* Main is blocked in handle.join() (main.rs:131).
WaitsForPoller == pc = "join" /\ exit = "none"

\* C19: on the Stopped path the terminal is restored (raw mode off,
\* alternate screen left) before the controller starts to wait for the input
\* thread, so it is restored in every state in which the controller is
\* blocked in that wait; the input thread has no exit condition and is
\* never in a terminated state.
C19_RestoredAtJoinPollerNeverEnds ==
    /\ WaitsForPoller => (~rawMode /\ ~altScreen)
    /\ poller # "panicked"

\* C19 as amended: the terminal is restored in every state in which the
\* controller waits for the input thread; the input thread is never
\* terminated while main runs, in particular not during that wait, and
\* it can end, by the panic of a failed send, only after main has returned
\* with an error.
C19_RestoredAtJoinPollerEndsOnlyAfterError ==
    /\ WaitsForPoller => (~rawMode /\ ~altScreen /\ ~running)
    /\ exit = "none" => poller = "polling"
    /\ poller = "panicked" => (exit = "err" /\ pc # "join")

\* After a frame and an Escape the controller waits for the input thread,
\* which is polling, with the terminal restored.
C19_Witness ==
    /\ WaitsForPoller
    /\ ~rawMode /\ ~altScreen
    /\ poller = "polling"
    /\ consumed # <<>> /\ Last(consumed) = "Esc"
    /\ frames # <<>>

====
